---- MODULE Spec2Model ----
(***************************************************************************)
(* The Formstack student-application module of ESP-Website                 *)
(* (esp/application/models.py): the synchronising manager                  *)
(* FormstackStudentProgramAppManager (fetch, get_query_set), the subject   *)
(* resolver get_subject, and the admission operations of StudentClassApp.  *)
(*                                                                         *)
(* Python values are encoded as follows.  A str is a sequence of           *)
(* one-character strings, so that partition, strip and int() are computed  *)
(* character by character.  An optional value is a sequence of length at   *)
(* most one: None is << >>, a present value x is << x >>.  A database      *)
(* table is a sequence of rows, the primary key of a row being its index   *)
(* (rows are never deleted by this code).                                  *)
(***************************************************************************)
EXTENDS Integers, Sequences, FiniteSets, TLC

VARIABLES
    apps,       \* table of StudentProgramApp rows
    classapps,  \* table of StudentClassApp rows
    locked,     \* FormstackStudentProgramAppManager.locked
    memo,       \* cache_function's stored result of fetch, per program
    upstream,   \* per program, what settings.form.submissions() returns
    form_id,    \* per program, FormstackAppSettings.form_id
    stack,      \* call stack of the request being served
    saved,      \* the open transaction's snapshot of the tables
    pre,        \* history: the tables when the running/last fetch body began
    outcome,    \* how the last read request ended: "none", "ok", "error"
    err,        \* what raised in the last failed fetch
    runs,       \* history: per program, fetch bodies begun in this read
    memoAtRead, \* history: programs whose result was memoized when the read began
    stale,      \* history: programs invalidated and not re-fetched since
    adm,        \* per staff request, the progress of its admit() call
    rin,        \* resolver harness: the input (program, token)
    rout,       \* resolver harness: the result of get_subject
    failed,     \* history: programs whose fetch failed in the reads just made
    last,       \* history: the admit() call just made and the rows before it
    pin,        \* ordering harness: the tables, the listing and a permutation of it
    pout,       \* ordering harness: what fetch leaves for either order
    mail        \* the run of the mail gateway script

vars == << apps, classapps, locked, memo, upstream, form_id, stack, saved, pre,
           outcome, err, runs, memoAtRead, stale, adm, rin, rout, failed, last,
           pin, pout, mail >>

-----------------------------------------------------------------------------
(* Bounds of the model *)

\* longest enumerated token handed to the resolver harness
MaxTokenLen == 3
\* deepest call stack explored (the code itself never nests deeper than 3)
MaxStack == 5
\* longest listing handed to the ordering harness
MaxListing == 3
\* most handlers configured for the mail gateway
MaxHandlers == 2

-----------------------------------------------------------------------------
(* Python values *)

None == << >>
Some(x) == << x >>

SeqMin(S) == CHOOSE m \in S : \A k \in S : m <= k

Digits == {"0", "1", "2", "3", "4", "5", "6", "7", "8", "9"}

DigitVal(c) ==
    CASE c = "0" -> 0 [] c = "1" -> 1 [] c = "2" -> 2 [] c = "3" -> 3
      [] c = "4" -> 4 [] c = "5" -> 5 [] c = "6" -> 6 [] c = "7" -> 7
      [] c = "8" -> 8 [] c = "9" -> 9

IsSpace(c) == c = " "

\* str.strip(): leading and trailing whitespace removed
Strip(s) ==
    LET keep == {k \in 1..Len(s) : ~IsSpace(s[k])}
    IN  IF keep = {} THEN << >>
        ELSE SubSeq(s, SeqMin(keep), CHOOSE m \in keep : \A k \in keep : k <= m)

RECURSIVE DecimalValue(_)
DecimalValue(ds) ==
    IF ds = << >> THEN 0
    ELSE 10 * DecimalValue(SubSeq(ds, 1, Len(ds) - 1)) + DigitVal(ds[Len(ds)])

\* int(str): surrounding whitespace, an optional sign, then one or more
\* decimal digits; anything else is a ValueError, encoded as None.
ParseInt(s) ==
    LET t == Strip(s)
        signed == t # << >> /\ Head(t) \in {"+", "-"}
        ds == IF signed THEN Tail(t) ELSE t
    IN  IF ds = << >> \/ \E k \in 1..Len(ds) : ds[k] \notin Digits
        THEN None
        ELSE Some(IF signed /\ Head(t) = "-" THEN 0 - DecimalValue(ds)
                  ELSE DecimalValue(ds))

\* s.partition('|')[0]: the text left of the first '|', all of s without one
Partition(s) ==
    LET bars == {k \in 1..Len(s) : s[k] = "|"}
    IN  IF bars = {} THEN s ELSE SubSeq(s, 1, SeqMin(bars) - 1)

-----------------------------------------------------------------------------
(* Programs, their settings, users and class catalogs *)

Programs == {"P1", "P2"}

\* Program.objects.filter(program_modules__handler='FormstackAppModule')
ProgramList == << "P1", "P2" >>

\* ESPUser usernames that exist locally
UAlice == << "a", "l", "i", "c", "e" >>
UBob == << "b", "o", "b" >>
UGhost == << "g", "h", "o", "s", "t" >>
Users == {UAlice, UBob}

\* program.classes(): subjects in the catalog's order
classes(program) ==
    IF program = "P1"
    THEN << [id |-> 7, title |-> << "A", "l", "g", "e", "b", "r", "a" >>],
            [id |-> 9, title |-> << "G", "e", "o", "m", "e", "t", "r", "y" >>] >>
    ELSE << [id |-> 9, title |-> << "a" >>],
            [id |-> 7, title |-> << "a" >>],
            [id |-> 1, title |-> << "9", "9" >>] >>

\* the field-id settings of FormstackAppSettings
username_field(program) == Some(1)
coreclass1_field(program) == Some(7)
coreclass2_field(program) == Some(9)
coreclass3_field(program) == IF program = "P1" THEN Some(11) ELSE None

-----------------------------------------------------------------------------
(* The subject resolver *)

Returned(v) == [raised |-> FALSE, value |-> v]
Raised == [raised |-> TRUE, value |-> None]

\* The handler of int()'s ValueError: the title lookup.
TitleLookup(program, val) ==
    LET cls_title == Strip(val)
        clses == {k \in 1..Len(classes(program)) :
                     classes(program)[k].title = cls_title}
    IN  IF clses # {} THEN Returned(Some(classes(program)[SeqMin(clses)].id))
        ELSE Returned(None)

\* program.classes().get(id=cls_id).  "except ValueError, ClassSubject.DoesNotExist"
\* is Python 2's "except ValueError as <target>": it catches ValueError only, so
\* the DoesNotExist of a missing id leaves get_subject as an exception.
IdLookup(program, val, cls_id) ==
    IF \E k \in 1..Len(classes(program)) : classes(program)[k].id = cls_id
    THEN Returned(Some(cls_id))
    ELSE Raised

\* get_subject(s), s an optional token
get_subject(program, s) ==
    IF s = None THEN Returned(None)
    ELSE LET val == Partition(s[1])
             cls_id == ParseInt(val)
         IN  IF cls_id # None THEN IdLookup(program, val, cls_id[1])
             ELSE TitleLookup(program, val)

-----------------------------------------------------------------------------
(* Upstream data: the submission listings the Formstack API can return *)

Entry(f, v) == [field |-> f, value |-> v]
Submission(id, data) == [id |-> id, data |-> data]

Tok7Algebra == << "7", "|", "A", "l", "g", "e", "b", "r", "a" >>
TokGeometry == << "G", "e", "o", "m", "e", "t", "r", "y" >>
TokBogus == << "B", "o", "g", "u", "s" >>
Tok9999Bogus == << "9", "9", "9", "9", "|", "B", "o", "g", "u", "s" >>
TokPadded9 == << " ", "9", " ", "|", "x" >>

\* the field ids as the API spells them
FUser == << "1" >>
FCore1 == << "7" >>
FCore2 == << "9" >>
FCore3 == << "1", "1" >>

SubA == Submission(1, << Entry(FUser, UAlice), Entry(FCore1, Tok7Algebra),
                         Entry(FCore2, TokGeometry) >>)
SubB == Submission(2, << Entry(FUser, UGhost), Entry(FCore1, Tok7Algebra) >>)

\* a token that resolves to no subject: absent, an unknown title, an unknown id
UnresolvableChoices == {None, Some(TokBogus), Some(Tok9999Bogus)}

SubC(choice) ==
    Submission(3, << Entry(FUser, UBob) >>
                  \o (IF choice = None THEN << >>
                      ELSE << Entry(FCore1, choice[1]) >>))

\* the three-submission scenario: alice, ghost, bob
EndToEnd(choice) == << SubA, SubB, SubC(choice) >>

\* a later state of the form: one submission without a username, and
\* submission 1 edited (rank 1 now subject 9, a rank 3 choice added)
Edited ==
    << Submission(4, << Entry(FCore1, Tok7Algebra) >>),
       Submission(1, << Entry(FUser, UAlice), Entry(FCore1, TokPadded9),
                        Entry(FCore3, Tok7Algebra) >>) >>

Listings(program) ==
    IF program = "P1"
    THEN {EndToEnd(c) : c \in UnresolvableChoices} \cup {Edited, << >>}
    ELSE {<< Submission(5, << Entry(FUser, UBob), Entry(FCore1, << "a" >>),
                              Entry(FCore3, << "7" >>) >>) >>}

-----------------------------------------------------------------------------
(* Model field values *)

UNREVIEWED == 0
APPROVED == 1
REJECTED == 0 - 1
GREEN == 1
UNASSIGNED == 0
ADMITTED == 1
WAITLIST == 2

\* data_dict raises when a field id is not an integer
DataRaises(data) == \E k \in 1..Len(data) : ParseInt(data[k].field) = None

\* data_dict.get(key) for data_dict = { int(entry['field']): entry['value'] }
DictGet(data, key) ==
    LET hits == {k \in 1..Len(data) : ParseInt(data[k].field) = key}
    IN  IF key = None \/ hits = {} THEN None
        ELSE Some(data[CHOOSE m \in hits : \A k \in hits : k <= m].value)

\* A plausible slip: the missing user not told from a found one.
UserAlwaysFound(username) == TRUE

\* ESPUser.objects.get(username=username) finds a user
UserExists(username) == username # None /\ username[1] \in Users

\* self.model(submission_id=...) with the fields' defaults
NewApp(sid) ==
    [submission_id |-> sid, user |-> None, program |-> None,
     admin_status |-> UNREVIEWED, admin_comment |-> "", app_type |-> "Formstack"]

\* FormstackStudentClassApp(app=app, student_preference=preference)
NewClassApp(app, preference) ==
    [app |-> app, student_preference |-> preference, subject |-> None,
     admission_status |-> UNASSIGNED, teacher_rating |-> None,
     teacher_ranking |-> None, teacher_comment |-> ""]

\* studentclassapp_set.all() of an application, in primary-key order
RECURSIVE ClassAppsOf(_, _, _)
ClassAppsOf(tbl, app, k) ==
    IF k > Len(tbl) THEN << >>
    ELSE (IF tbl[k].app = app THEN << k >> ELSE << >>) \o ClassAppsOf(tbl, app, k + 1)

Snapshot(open) == [open |-> open, apps |-> apps, classapps |-> classapps]
NoSnapshot == [open |-> FALSE, apps |-> << >>, classapps |-> << >>]

NoMemo == [set |-> FALSE, value |-> << >>]

NoRuns == [p \in Programs |-> 0]

NoErr == [kind |-> "none", program |-> "", pc |-> "", i |-> 0, dirty |-> FALSE]

NoLast == [op |-> "none", self |-> 0, before |-> << >>]

\* A plausible slip: the existing row never looked up, a new one always made.
FindNoApp(tbl, sid) == {}

\* self.get(submission_id=...): the rows the filtered query set matches
FindApp(tbl, sid) ==
    {k \in 1..Len(tbl) : tbl[k].app_type = "Formstack" /\ tbl[k].submission_id = sid}

\* "update app object, or make one if it doesn't exist", then app.save():
\* the table afterwards, the row's primary key, and what was raised if anything
UpsertApp(tbl, sid, user, program) ==
    LET found == FindApp(tbl, sid)
        row(old) == [old EXCEPT !.user = user, !.program = Some(program)]
    IN  IF Cardinality(found) > 1
        THEN [raised |-> "multiple", tbl |-> tbl, pk |-> 0]
        ELSE IF found = {} /\ \E k \in 1..Len(tbl) : tbl[k].submission_id = sid
        THEN [raised |-> "integrity", tbl |-> tbl, pk |-> 0]
        ELSE IF found = {}
        THEN [raised |-> "", tbl |-> Append(tbl, row(NewApp(sid))),
              pk |-> Len(tbl) + 1]
        ELSE [raised |-> "",
              tbl |-> [tbl EXCEPT ![CHOOSE k \in found : TRUE] = row(@)],
              pk |-> CHOOSE k \in found : TRUE]

\* A plausible slip: the existing class application never looked up.
FindNoClassApp(tbl, app, preference) == {}

\* A plausible slip: the class application looked up by its rank alone.
FindClassAppByRank(tbl, app, preference) ==
    {k \in 1..Len(tbl) : tbl[k].student_preference = preference}

\* FormstackStudentClassApp.objects.get(app=app, student_preference=preference)
FindClassApp(tbl, app, preference) ==
    {k \in 1..Len(tbl) : tbl[k].app = app /\ tbl[k].student_preference = preference}

\* A plausible slip: the row that exists replaced by a newly made object.
UpsertClassAppAnew(tbl, app, preference, subject) ==
    LET found == FindClassApp(tbl, app, preference)
        made == [NewClassApp(app, preference) EXCEPT !.subject = subject]
    IN  IF subject = None THEN [raised |-> "", tbl |-> tbl]
        ELSE IF found = {} THEN [raised |-> "", tbl |-> Append(tbl, made)]
        ELSE [raised |-> "",
              tbl |-> [tbl EXCEPT ![CHOOSE k \in found : TRUE] = made]]

\* "update class app objects" for one preference: nothing for an unresolved
\* subject, else the row of (app, preference) gets the subject, made if missing
UpsertClassApp(tbl, app, preference, subject) ==
    LET found == FindClassApp(tbl, app, preference)
    IN  IF subject = None THEN [raised |-> "", tbl |-> tbl]
        ELSE IF Cardinality(found) > 1 THEN [raised |-> "multiple", tbl |-> tbl]
        ELSE IF found = {}
        THEN [raised |-> "",
              tbl |-> Append(tbl, [NewClassApp(app, preference)
                                      EXCEPT !.subject = subject])]
        ELSE [raised |-> "",
              tbl |-> [tbl EXCEPT ![CHOOSE k \in found : TRUE].subject = subject]]

-----------------------------------------------------------------------------
(* The call stack of a request *)

\* a call of get_query_set: the programs it has yet to fetch
GqsFrame(todo) ==
    [kind |-> "gqs", program |-> "", todo |-> todo, pc |-> "", i |-> 0,
     subs |-> << >>, user |-> None, choices |-> << >>, app |-> 0, rank |-> 0,
     result |-> << >>]

\* an execution of fetch's body: pc is the place in it, i the index of the
\* submission in hand, result the local list "apps"
FetchFrame(program) ==
    [kind |-> "fetch", program |-> program, todo |-> << >>, pc |-> "settings",
     i |-> 0, subs |-> << >>, user |-> None, choices |-> << >>, app |-> 0,
     rank |-> 0, result |-> << >>]

Top == stack[Len(stack)]
SetTop(f) == [stack EXCEPT ![Len(stack)] = f]
Pop == SubSeq(stack, 1, Len(stack) - 1)
InFetch(pcs) == stack # << >> /\ Top.kind = "fetch" /\ Top.pc \in pcs
InGqs == stack # << >> /\ Top.kind = "gqs"

Staff == {"s1", "s2"}
AdmIdleFrame == [pc |-> "idle", self |-> 0, todo |-> << >>]
AdmIdle == \A s \in Staff : adm[s] = AdmIdleFrame

\* the bookkeeping of the last read is forgotten when another operation starts
ResetHistory ==
    /\ outcome' = "none"
    /\ err' = NoErr
    /\ runs' = NoRuns
    /\ memoAtRead' = {}
    /\ pre' = NoSnapshot
    /\ failed' = {}

-----------------------------------------------------------------------------
(* get_query_set and the cached fetch *)

\* A plausible slip: the guard on self.locked left out.
get_query_set_unguarded(l) == ProgramList

\* A plausible slip: the guard written the wrong way round.
get_query_set_inverted(l) == IF l THEN ProgramList ELSE << >>

\* get_query_set: the programs fetched before the query set is returned
get_query_set(l) == IF ~l THEN ProgramList ELSE << >>

\* A plausible slip: the flag reset only on the successful path.
FinallyKeepsLocked(l) == l

\* finally: self.locked = False
FinallyLocked(l) == FALSE

\* A plausible slip: no transaction around the writes.
NoRollback(current, snapshot) == current

\* transaction.commit_on_success() left by an exception: rollback
RollbackTo(current, snapshot) == snapshot

\* A plausible slip: the dependency registered for no key at all.
DependsOnNothing(program) == {}

\* fetch.depend_on_cache(..., lambda **kwargs: {}): the fetch keys dropped when
\* the submissions of `program` are invalidated; the empty filter matches all
FetchKeysDependingOn(program) == Programs

\* a read of the application collection arrives: get_query_set is called
Read ==
    /\ stack = << >> /\ AdmIdle
    /\ stack' = << GqsFrame(get_query_set(locked)) >>
    /\ outcome' = "none" /\ err' = NoErr /\ runs' = NoRuns
    /\ pre' = NoSnapshot
    /\ memoAtRead' = {p \in Programs : memo[p].set}
    /\ last' = NoLast
    /\ UNCHANGED << apps, classapps, locked, memo, upstream, form_id, saved,
                    stale, adm, rin, rout, failed, pin, pout, mail >>

\* self.fetch(program) answered by cache_function from its stored result
FetchCached ==
    /\ InGqs /\ Top.todo # << >>
    /\ memo[Head(Top.todo)].set
    /\ stack' = SetTop([Top EXCEPT !.todo = Tail(@)])
    /\ UNCHANGED << apps, classapps, locked, memo, upstream, form_id, saved, pre,
                    outcome, err, runs, memoAtRead, stale, adm, rin, rout,
                    failed, last, pin, pout, mail >>

\* self.fetch(program) with nothing stored: the body starts, self.locked = True
FetchEnter ==
    /\ InGqs /\ Top.todo # << >>
    /\ ~memo[Head(Top.todo)].set
    /\ Len(stack) < MaxStack
    /\ LET program == Head(Top.todo)
       IN  /\ stack' = Append(SetTop([Top EXCEPT !.todo = Tail(@)]),
                              FetchFrame(program))
           /\ runs' = [runs EXCEPT ![program] = @ + 1]
           /\ stale' = stale \ {program}
           /\ failed' = failed \ {program}
    /\ locked' = TRUE
    /\ pre' = Snapshot(FALSE)
    /\ UNCHANGED << apps, classapps, memo, upstream, form_id, saved, outcome,
                    err, memoAtRead, adm, rin, rout, last, pin, pout, mail >>

\* get_query_set returns the filtered query set to its caller
GqsReturn ==
    /\ InGqs /\ Top.todo = << >>
    /\ stack' = Pop
    /\ outcome' = IF Len(stack) = 1 THEN "ok" ELSE outcome
    /\ UNCHANGED << apps, classapps, locked, memo, upstream, form_id, saved, pre,
                    err, runs, memoAtRead, stale, adm, rin, rout,
                    failed, last, pin, pout, mail >>

\* A plausible slip: the exception caught around self.fetch(program), and
\* get_query_set going on to return its query set.
CaughtByCaller(stk) == SubSeq(stk, 1, Len(stk) - 1)

\* get_query_set calls self.fetch(program) inside no try statement: an
\* exception leaving fetch leaves every caller, and the request has no result
Unwind(stk) == << >>

\* An exception leaves fetch: the open transaction is rolled back, the finally
\* clause runs, and the exception travels up through every caller.
Fail(kind) ==
    /\ apps' = IF saved.open THEN RollbackTo(apps, saved.apps) ELSE apps
    /\ classapps' = IF saved.open THEN RollbackTo(classapps, saved.classapps)
                    ELSE classapps
    /\ saved' = NoSnapshot
    /\ locked' = FinallyLocked(locked)
    /\ stack' = Unwind(stack)
    /\ outcome' = "error"
    /\ failed' = failed \cup {Top.program}
    /\ err' = [kind |-> kind, program |-> Top.program, pc |-> Top.pc, i |-> Top.i,
                dirty |-> saved.open /\ (apps # saved.apps \/ classapps # saved.classapps)]
    /\ UNCHANGED << memo, upstream, form_id, pre, runs, memoAtRead, stale, adm,
                    rin, rout, last, pin, pout, mail >>

-----------------------------------------------------------------------------
(* The body of fetch *)

\* A plausible slip: the property without its test of form_id.
form_unchecked(fid) == Some(fid)

\* FormstackAppSettings.form: the form of form_id, None when form_id is unset
form(fid) == IF fid # None THEN Some(fid) ELSE None

\* settings.form.submissions(): settings.form is None when form_id is unset,
\* and calling .submissions() on it raises AttributeError
FetchSettings ==
    /\ InFetch({"settings"})
    /\ IF form(form_id[Top.program]) = None
       THEN Fail("config")
       ELSE /\ stack' = SetTop([Top EXCEPT !.subs = upstream[Top.program],
                                           !.pc = "loop", !.i = 1])
            /\ saved' = Snapshot(TRUE)
            /\ UNCHANGED << apps, classapps, locked, memo, upstream, form_id,
                            pre, outcome, err, runs, memoAtRead, stale, adm,
                            rin, rout,
                    failed, last, pin, pout, mail >>

\* the choices of one submission: get_subject of the three class fields
Choices(program, data) ==
    << get_subject(program, DictGet(data, coreclass1_field(program))),
       get_subject(program, DictGet(data, coreclass2_field(program))),
       get_subject(program, DictGet(data, coreclass3_field(program))) >>

\* The loop body for one submission, run without interruption on the tables
\* db: the tables afterwards, and whether an exception left the body.
ProcessSubmission(db, program, sub) ==
    LET username == DictGet(sub.data, username_field(program))
        choices == Choices(program, sub.data)
        a == UpsertApp(db.apps, sub.id, username, program)
        c1 == UpsertClassApp(db.classapps, a.pk, 1, choices[1].value)
        c2 == UpsertClassApp(c1.tbl, a.pk, 2, choices[2].value)
        c3 == UpsertClassApp(c2.tbl, a.pk, 3, choices[3].value)
    IN  IF DataRaises(sub.data) THEN [db EXCEPT !.ok = FALSE]
        ELSE IF ~UserExists(username) THEN db
        ELSE IF \E r \in 1..3 : choices[r].raised THEN [db EXCEPT !.ok = FALSE]
        ELSE IF a.raised # "" \/ c1.raised # "" \/ c2.raised # "" \/ c3.raised # ""
        THEN [db EXCEPT !.ok = FALSE]
        ELSE [ok |-> TRUE, apps |-> a.tbl, classapps |-> c3.tbl]

\* The whole loop "for submission in submissions" from submission i on, run
\* without interruption: what one execution of fetch's write phase leaves.
RECURSIVE FetchAll(_, _, _, _)
FetchAll(db, program, subs, i) ==
    IF i > Len(subs) \/ ~db.ok THEN db
    ELSE FetchAll(ProcessSubmission(db, program, subs[i]), program, subs, i + 1)

Tables(a, c) == [ok |-> TRUE, apps |-> a, classapps |-> c]

\* one turn of "for submission in submissions" up to the class choices: the
\* data dict, the user (a submission without one is skipped), the subjects
FetchSubmission ==
    /\ InFetch({"loop"}) /\ Top.i <= Len(Top.subs)
    /\ LET data == Top.subs[Top.i].data
           username == DictGet(data, username_field(Top.program))
           choices == Choices(Top.program, data)
       IN  IF DataRaises(data) THEN Fail("data")
           ELSE IF ~UserExists(username)
           THEN /\ stack' = SetTop([Top EXCEPT !.i = @ + 1])
                /\ UNCHANGED << apps, classapps, locked, memo, upstream,
                                form_id, saved, pre, outcome, err, runs,
                                memoAtRead, stale, adm, rin, rout,
                    failed, last, pin, pout, mail >>
           ELSE IF \E r \in 1..3 : choices[r].raised THEN Fail("subject")
           ELSE /\ stack' = SetTop([Top EXCEPT
                                       !.user = username,
                                       !.choices = << choices[1].value,
                                                      choices[2].value,
                                                      choices[3].value >>,
                                       !.pc = "lookup"])
                /\ UNCHANGED << apps, classapps, locked, memo, upstream,
                                form_id, saved, pre, outcome, err, runs,
                                memoAtRead, stale, adm, rin, rout,
                    failed, last, pin, pout, mail >>

\* self.get(submission_id=submission.id) reads the application collection:
\* it calls get_query_set, from inside fetch
FetchLookup ==
    /\ InFetch({"lookup"})
    /\ Len(stack) < MaxStack
    /\ stack' = Append(SetTop([Top EXCEPT !.pc = "save"]),
                       GqsFrame(get_query_set(locked)))
    /\ UNCHANGED << apps, classapps, locked, memo, upstream, form_id, saved, pre,
                    outcome, err, runs, memoAtRead, stale, adm, rin, rout,
                    failed, last, pin, pout, mail >>

\* the application row found by self.get, or a new one; user and program
\* set; app.save()
FetchSave ==
    /\ InFetch({"save"})
    /\ LET up == UpsertApp(apps, Top.subs[Top.i].id, Top.user, Top.program)
       IN  IF up.raised # "" THEN Fail(up.raised)
           ELSE /\ apps' = up.tbl
                /\ stack' = SetTop([Top EXCEPT !.app = up.pk, !.rank = 1,
                                               !.pc = "cls"])
                /\ UNCHANGED << classapps, locked, memo, upstream, form_id,
                                saved, pre, outcome, err, runs, memoAtRead,
                                stale, adm, rin, rout,
                    failed, last, pin, pout, mail >>

\* one turn of "for preference, subject in choices.items()": a resolved
\* subject is written to the class application of that rank, made if missing
FetchClassApp ==
    /\ InFetch({"cls"}) /\ Top.rank <= 3
    /\ LET up == UpsertClassApp(classapps, Top.app, Top.rank, Top.choices[Top.rank])
       IN  IF up.raised # "" THEN Fail(up.raised)
           ELSE /\ classapps' = up.tbl
                /\ stack' = SetTop([Top EXCEPT !.rank = @ + 1])
                /\ UNCHANGED << apps, locked, memo, upstream, form_id, saved,
                                pre, outcome, err, runs, memoAtRead, stale, adm,
                                rin, rout,
                    failed, last, pin, pout, mail >>

\* apps.append(app), and on to the next submission
FetchAppend ==
    /\ InFetch({"cls"}) /\ Top.rank > 3
    /\ stack' = SetTop([Top EXCEPT !.result = Append(@, Top.app),
                                   !.i = @ + 1, !.pc = "loop"])
    /\ UNCHANGED << apps, classapps, locked, memo, upstream, form_id, saved, pre,
                    outcome, err, runs, memoAtRead, stale, adm, rin, rout,
                    failed, last, pin, pout, mail >>

\* the listing is exhausted: the with-block ends and the transaction commits
FetchCommit ==
    /\ InFetch({"loop"}) /\ Top.i > Len(Top.subs)
    /\ saved' = NoSnapshot
    /\ stack' = SetTop([Top EXCEPT !.pc = "return"])
    /\ UNCHANGED << apps, classapps, locked, memo, upstream, form_id, pre,
                    outcome, err, runs, memoAtRead, stale, adm, rin, rout,
                    failed, last, pin, pout, mail >>

\* finally: self.locked = False; return apps, which cache_function stores
FetchReturn ==
    /\ InFetch({"return"})
    /\ locked' = FALSE
    /\ memo' = [memo EXCEPT ![Top.program] = [set |-> TRUE, value |-> Top.result]]
    /\ stack' = Pop
    /\ UNCHANGED << apps, classapps, upstream, form_id, saved, pre, outcome,
                    err, runs, memoAtRead, stale, adm, rin, rout,
                    failed, last, pin, pout, mail >>

\* A failure from outside the code: the Formstack API (submissions(), data())
\* or the database (a save) raises.
ExternalFailure ==
    /\ InFetch({"settings", "loop", "lookup", "save", "cls"})
    /\ Fail("external")

\* The cached upstream data of `program` is invalidated, because the form's
\* submissions changed; the dependent fetch results are dropped with it.
Invalidate(program) ==
    /\ stack = << >> /\ AdmIdle
    /\ \E l \in Listings(program) : upstream' = [upstream EXCEPT ![program] = l]
    /\ memo' = [q \in Programs |->
                   IF q \in FetchKeysDependingOn(program) THEN NoMemo ELSE memo[q]]
    /\ stale' = stale \cup {program}
    /\ ResetHistory
    /\ last' = NoLast
    /\ UNCHANGED << apps, classapps, locked, form_id, stack, saved, adm, rin,
                    rout, pin, pout, mail >>

-----------------------------------------------------------------------------
(* The admission operations of StudentClassApp *)

SetStatus(tbl, k, status) == [tbl EXCEPT ![k].admission_status = status]

\* A plausible slip: admit() without its loop over the siblings.
AdmitNoSiblings(tbl, c) == << >>

\* A plausible slip: only the siblings that are Admitted are unassigned.
AdmitAdmittedSiblings(tbl, c) ==
    SelectSeq(ClassAppsOf(tbl, tbl[c].app, 1),
              LAMBDA k : tbl[k].admission_status = ADMITTED)

\* self.app.studentclassapp_set.all(): the class applications admit() unassigns
AdmitSiblings(tbl, c) == ClassAppsOf(tbl, tbl[c].app, 1)

\* admit(), called on class application c: the query
\* self.app.studentclassapp_set.all() is evaluated
AdmitBegin(s, c) ==
    /\ stack = << >> /\ AdmIdle
    /\ c \in 1..Len(classapps)
    /\ adm' = [adm EXCEPT ![s] = [pc |-> "loop", self |-> c,
                                  todo |-> AdmitSiblings(classapps, c)]]
    /\ ResetHistory
    /\ last' = [op |-> "admitting", self |-> c, before |-> classapps]
    /\ UNCHANGED << apps, classapps, locked, memo, upstream, form_id, stack,
                    saved, stale, rin, rout, pin, pout, mail >>

\* one turn of admit()'s loop: classapp.admission_status = UNASSIGNED; save()
AdmitUnassign(s) ==
    /\ adm[s].pc = "loop" /\ adm[s].todo # << >>
    /\ classapps' = SetStatus(classapps, Head(adm[s].todo), UNASSIGNED)
    /\ adm' = [adm EXCEPT ![s].todo = Tail(@)]
    /\ UNCHANGED << apps, locked, memo, upstream, form_id, stack, saved, pre,
                    outcome, err, runs, memoAtRead, stale, rin, rout,
                    failed, last, pin, pout, mail >>

\* after the loop: self.admission_status = ADMITTED; self.save()
AdmitSelf(s) ==
    /\ adm[s].pc = "loop" /\ adm[s].todo = << >>
    /\ classapps' = SetStatus(classapps, adm[s].self, ADMITTED)
    /\ adm' = [adm EXCEPT ![s] = AdmIdleFrame]
    /\ last' = [last EXCEPT !.op = "admit", !.self = adm[s].self]
    /\ UNCHANGED << apps, locked, memo, upstream, form_id, stack, saved, pre,
                    outcome, err, runs, memoAtRead, stale, rin, rout, failed,
                    pin, pout, mail >>

\* unadmit()
Unadmit(c) ==
    /\ stack = << >> /\ AdmIdle
    /\ c \in 1..Len(classapps)
    /\ classapps' = SetStatus(classapps, c, UNASSIGNED)
    /\ ResetHistory
    /\ last' = NoLast
    /\ UNCHANGED << apps, locked, memo, upstream, form_id, stack, saved, stale,
                    adm, rin, rout, pin, pout, mail >>

\* waitlist()
Waitlist(c) ==
    /\ stack = << >> /\ AdmIdle
    /\ c \in 1..Len(classapps)
    /\ classapps' = SetStatus(classapps, c, WAITLIST)
    /\ ResetHistory
    /\ last' = NoLast
    /\ UNCHANGED << apps, locked, memo, upstream, form_id, stack, saved, stale,
                    adm, rin, rout, pin, pout, mail >>

-----------------------------------------------------------------------------
(* The system: reads, synchronisation, invalidation and admission, one     *)
(* request at a time                                                        *)

NoInput == [program |-> "P1", token |-> None]
NoOutput == [done |-> FALSE, res |-> Returned(None)]
NoPermInput == [apps |-> << >>, classapps |-> << >>, subs |-> << >>, perm |-> << >>]
NoPermOutput == [done |-> FALSE, listed |-> Tables(<< >>, << >>),
                 permuted |-> Tables(<< >>, << >>)]
NoMail == [pc |-> "off", local |-> None, handlers |-> << >>, i |-> 0, sent |-> 0,
           notice |-> FALSE, status |-> None]

Init ==
    /\ apps = << >>
    /\ classapps = << >>
    /\ locked = FALSE
    /\ memo = [p \in Programs |-> NoMemo]
    /\ upstream \in [Programs -> UNION {Listings(p) : p \in Programs}]
    /\ \A p \in Programs : upstream[p] \in Listings(p)
    /\ form_id \in [Programs -> {None, Some(1001)}]
    /\ form_id["P1"] # None
    /\ stack = << >>
    /\ saved = NoSnapshot
    /\ pre = NoSnapshot
    /\ outcome = "none"
    /\ err = NoErr
    /\ runs = NoRuns
    /\ memoAtRead = {}
    /\ stale = {}
    /\ adm = [s \in Staff |-> AdmIdleFrame]
    /\ rin = NoInput
    /\ rout = NoOutput
    /\ failed = {}
    /\ last = NoLast
    /\ pin = NoPermInput
    /\ pout = NoPermOutput
    /\ mail = NoMail

Next ==
    \/ Read
    \/ FetchCached
    \/ FetchEnter
    \/ GqsReturn
    \/ FetchSettings
    \/ FetchSubmission
    \/ FetchLookup
    \/ FetchSave
    \/ FetchClassApp
    \/ FetchAppend
    \/ FetchCommit
    \/ FetchReturn
    \/ ExternalFailure
    \/ \E p \in Programs : Invalidate(p)
    \/ \E c \in 1..Len(classapps) : AdmitBegin("s1", c)
    \/ AdmitUnassign("s1")
    \/ AdmitSelf("s1")
    \/ \E c \in 1..Len(classapps) : Unadmit(c)
    \/ \E c \in 1..Len(classapps) : Waitlist(c)

Spec == Init /\ [][Next]_vars

-----------------------------------------------------------------------------
(* The subject resolver on its own: every short token, in both catalogs *)

Alphabet == {"1", "7", "9", " ", "|", "a", "-"}

Tokens ==
    UNION {[1..n -> Alphabet] : n \in 0..MaxTokenLen}
        \cup {Tok7Algebra, TokGeometry, TokBogus, Tok9999Bogus, TokPadded9}

InitResolve ==
    /\ apps = << >>
    /\ classapps = << >>
    /\ locked = FALSE
    /\ memo = [p \in Programs |-> NoMemo]
    /\ upstream = [p \in Programs |-> IF p = "P1" THEN << >>
                                      ELSE CHOOSE l \in Listings(p) : TRUE]
    /\ form_id = [p \in Programs |-> Some(1001)]
    /\ stack = << >>
    /\ saved = NoSnapshot
    /\ pre = NoSnapshot
    /\ outcome = "none"
    /\ err = NoErr
    /\ runs = NoRuns
    /\ memoAtRead = {}
    /\ stale = {}
    /\ adm = [s \in Staff |-> AdmIdleFrame]
    /\ rin \in [program : Programs, token : {None} \cup {Some(t) : t \in Tokens}]
    /\ rout = NoOutput
    /\ failed = {}
    /\ last = NoLast
    /\ pin = NoPermInput
    /\ pout = NoPermOutput
    /\ mail = NoMail

\* get_subject is applied to the input
Resolve ==
    /\ ~rout.done
    /\ rout' = [done |-> TRUE, res |-> get_subject(rin.program, rin.token)]
    /\ UNCHANGED << apps, classapps, locked, memo, upstream, form_id, stack,
                    saved, pre, outcome, err, runs, memoAtRead, stale, adm, rin,
                    failed, last, pin, pout, mail >>

NextResolve == Resolve

SpecResolve == InitResolve /\ [][NextResolve]_vars

-----------------------------------------------------------------------------
(* admit() called by two staff requests at once: nothing in admit() (no     *)
(* lock, no transaction, no select_for_update) keeps the saves of one call  *)
(* from falling between the saves of the other                              *)

\* admit() called on class application c while another request may be inside
\* its own admit(): the query self.app.studentclassapp_set.all() is evaluated
AdmitBeginOverlapping(s, c) ==
    /\ stack = << >>
    /\ adm[s] = AdmIdleFrame
    /\ c \in 1..Len(classapps)
    /\ adm' = [adm EXCEPT ![s] = [pc |-> "loop", self |-> c,
                                  todo |-> AdmitSiblings(classapps, c)]]
    /\ last' = [op |-> "admitting", self |-> c, before |-> classapps]
    /\ UNCHANGED << apps, classapps, locked, memo, upstream, form_id, stack,
                    saved, pre, outcome, err, runs, memoAtRead, stale, rin, rout,
                    failed, pin, pout, mail >>

\* the statuses one application's class applications can have between requests
\* made one after another: at most one of them Admitted
StatusesOfOne ==
    {st \in [1..3 -> {UNASSIGNED, ADMITTED, WAITLIST}] :
        Cardinality({r \in 1..3 : st[r] = ADMITTED}) <= 1}

\* alice's application with a class application at each of the three ranks
InitOverlap ==
    /\ apps = << [NewApp(1) EXCEPT !.user = Some(UAlice), !.program = Some("P1")] >>
    /\ \E st \in StatusesOfOne :
          classapps = << [NewClassApp(1, 1) EXCEPT !.subject = Some(7),
                                                   !.admission_status = st[1]],
                         [NewClassApp(1, 2) EXCEPT !.subject = Some(9),
                                                   !.admission_status = st[2]],
                         [NewClassApp(1, 3) EXCEPT !.subject = Some(7),
                                                   !.admission_status = st[3]] >>
    /\ locked = FALSE
    /\ memo = [p \in Programs |-> NoMemo]
    /\ upstream = [p \in Programs |-> IF p = "P1" THEN << >>
                                      ELSE CHOOSE l \in Listings(p) : TRUE]
    /\ form_id = [p \in Programs |-> Some(1001)]
    /\ stack = << >>
    /\ saved = NoSnapshot
    /\ pre = NoSnapshot
    /\ outcome = "none"
    /\ err = NoErr
    /\ runs = NoRuns
    /\ memoAtRead = {}
    /\ stale = {}
    /\ adm = [s \in Staff |-> AdmIdleFrame]
    /\ rin = NoInput
    /\ rout = NoOutput
    /\ failed = {}
    /\ last = NoLast
    /\ pin = NoPermInput
    /\ pout = NoPermOutput
    /\ mail = NoMail

NextOverlap ==
    \E s \in Staff :
        \/ \E c \in 1..Len(classapps) : AdmitBeginOverlapping(s, c)
        \/ AdmitUnassign(s)
        \/ AdmitSelf(s)

SpecOverlap == InitOverlap /\ [][NextOverlap]_vars

-----------------------------------------------------------------------------
(* Synchronisation of records that staff and teachers have worked on: the   *)
(* reads and fetches of Spec, begun with an application that was reviewed   *)
(* and a class application that was rated, ranked and decided               *)

InitReview ==
    /\ \E st \in {UNREVIEWED, APPROVED, REJECTED}, cm \in {"", "strong essay"} :
          apps = << [NewApp(1) EXCEPT !.user = Some(UBob), !.program = Some("P1"),
                                      !.admin_status = st, !.admin_comment = cm] >>
    /\ \E ad \in {UNASSIGNED, ADMITTED, WAITLIST}, seen \in BOOLEAN :
          classapps =
              << [NewClassApp(1, 1) EXCEPT
                     !.subject = Some(7),
                     !.admission_status = ad,
                     !.teacher_rating = IF seen THEN Some(GREEN) ELSE None,
                     !.teacher_ranking = IF seen THEN Some(2) ELSE None,
                     !.teacher_comment = IF seen THEN "met at splash" ELSE ""] >>
    /\ locked = FALSE
    /\ memo = [p \in Programs |-> NoMemo]
    /\ upstream \in [Programs -> UNION {Listings(p) : p \in Programs}]
    /\ \A p \in Programs : upstream[p] \in Listings(p)
    /\ form_id = [p \in Programs |-> Some(1001)]
    /\ stack = << >>
    /\ saved = NoSnapshot
    /\ pre = NoSnapshot
    /\ outcome = "none"
    /\ err = NoErr
    /\ runs = NoRuns
    /\ memoAtRead = {}
    /\ stale = {}
    /\ adm = [s \in Staff |-> AdmIdleFrame]
    /\ rin = NoInput
    /\ rout = NoOutput
    /\ failed = {}
    /\ last = NoLast
    /\ pin = NoPermInput
    /\ pout = NoPermOutput
    /\ mail = NoMail

NextReview ==
    \/ Read
    \/ FetchCached
    \/ FetchEnter
    \/ GqsReturn
    \/ FetchSettings
    \/ FetchSubmission
    \/ FetchLookup
    \/ FetchSave
    \/ FetchClassApp
    \/ FetchAppend
    \/ FetchCommit
    \/ FetchReturn
    \/ ExternalFailure

SpecReview == InitReview /\ [][NextReview]_vars

-----------------------------------------------------------------------------
(* The write phase of fetch over a listing and over a permutation of it *)

\* the manager between requests, with nothing memoized
AtRest ==
    /\ locked = FALSE
    /\ memo = [p \in Programs |-> NoMemo]
    /\ upstream = [p \in Programs |-> IF p = "P1" THEN << >>
                                      ELSE CHOOSE l \in Listings(p) : TRUE]
    /\ form_id = [p \in Programs |-> Some(1001)]
    /\ stack = << >>
    /\ saved = NoSnapshot
    /\ pre = NoSnapshot
    /\ outcome = "none"
    /\ err = NoErr
    /\ runs = NoRuns
    /\ memoAtRead = {}
    /\ stale = {}
    /\ adm = [s \in Staff |-> AdmIdleFrame]
    /\ failed = {}
    /\ last = NoLast

\* a second submission of alice
SubD == Submission(6, << Entry(FUser, UAlice), Entry(FCore1, TokGeometry) >>)

\* the submissions a listing is drawn from
Pool ==
    {SubA, SubB, SubD, Edited[1], Edited[2]} \cup {SubC(c) : c \in UnresolvableChoices}

\* the listings of at most MaxListing submissions with pairwise distinct ids
DistinctListings ==
    {l \in UNION {[1..n -> Pool] : n \in 0..MaxListing} :
        \A j, k \in 1..Len(l) : l[j].id = l[k].id => j = k}

Orders(n) ==
    {f \in [1..n -> 1..n] : \A j, k \in 1..n : f[j] = f[k] => j = k}

Permuted(subs, perm) == [k \in 1..Len(subs) |-> subs[perm[k]]]

InitPermute ==
    /\ apps = << >>
    /\ classapps = << >>
    /\ AtRest
    /\ rin = NoInput
    /\ rout = NoOutput
    /\ \E db \in {Tables(<< >>, << >>),
                  FetchAll(Tables(<< >>, << >>), "P1", EndToEnd(None), 1)},
          subs \in DistinctListings :
          \E perm \in Orders(Len(subs)) :
              pin = [apps |-> db.apps, classapps |-> db.classapps,
                     subs |-> subs, perm |-> perm]
    /\ pout = NoPermOutput
    /\ mail = NoMail

\* the loop of fetch is run from the same tables over the listing as given
\* and over the listing permuted
Permute ==
    /\ ~pout.done
    /\ pout' = [done |-> TRUE,
                listed |-> FetchAll(Tables(pin.apps, pin.classapps), "P1",
                                    pin.subs, 1),
                permuted |-> FetchAll(Tables(pin.apps, pin.classapps), "P1",
                                      Permuted(pin.subs, pin.perm), 1)]
    /\ UNCHANGED << apps, classapps, locked, memo, upstream, form_id, stack,
                    saved, pre, outcome, err, runs, memoAtRead, stale, adm, rin,
                    rout, failed, last, pin, mail >>

NextPermute == Permute

SpecPermute == InitPermute /\ [][NextPermute]_vars

-----------------------------------------------------------------------------
(* The mail gateway script (esp/mailgates/mailgate.py) *)

\* re.I, which the script passes to search() where the pattern object takes
\* pos, the index at which the search starts
re_I == 2

\* The patterns are plain words: re_obj.search(user, re.I) finds the word in
\* user at or after index pos (counted from 0).
Search(word, user, pos) ==
    \E k \in (pos + 1)..(Len(user) - Len(word) + 1) :
        SubSeq(user, k, k + Len(word) - 1) = word

\* what a handler does with a message once its pattern has matched: the class
\* cannot be imported or process() raises; process() leaves send false; the
\* message is sent to all recipients at once, or to each of them
Behaviours == {"raises", "declines", "sends to all", "sends to each"}

\* the rows of EmailList: the pattern, what the handler class does, and how
\* many recipients it finds
Handlers ==
    [regex : {<< "e", "s", "p" >>, << "x" >>}, does : Behaviours,
     recipients : {0, 2}]

LocalParts ==
    {None, Some(<< "e", "s", "p" >>), Some(<< "x", "x", "e", "s", "p" >>),
     Some(<< "n", "o", "b", "o", "d", "y" >>)}

InitMail ==
    /\ apps = << >>
    /\ classapps = << >>
    /\ AtRest
    /\ rin = NoInput
    /\ rout = NoOutput
    /\ pin = NoPermInput
    /\ pout = NoPermOutput
    /\ \E local \in LocalParts,
          handlers \in UNION {[1..n -> Handlers] : n \in 0..MaxHandlers} :
          mail = [NoMail EXCEPT !.pc = "start", !.local = local,
                                !.handlers = handlers]

MailUnchanged ==
    UNCHANGED << apps, classapps, locked, memo, upstream, form_id, stack, saved,
                 pre, outcome, err, runs, memoAtRead, stale, adm, rin, rout,
                 failed, last, pin, pout >>

\* except Exception: with DEBUG false the notice is printed, then sys.exit(1)
MailExcept == [mail EXCEPT !.pc = "exited", !.notice = TRUE, !.status = Some(1)]

\* user = os.environ['LOCAL_PART'] (a KeyError without it), the message is
\* parsed and the handlers are read
MailStart ==
    /\ mail.pc = "start"
    /\ mail' = IF mail.local = None THEN MailExcept
               ELSE [mail EXCEPT !.pc = "loop", !.i = 1]
    /\ MailUnchanged

\* one turn of "for handler in handlers"
MailHandler ==
    /\ mail.pc = "loop" /\ mail.i <= Len(mail.handlers)
    /\ LET handler == mail.handlers[mail.i]
           match == Search(handler.regex, mail.local[1], re_I)
       IN  mail' =
               IF ~match THEN [mail EXCEPT !.i = @ + 1]
               ELSE IF handler.does = "raises" THEN MailExcept
               ELSE IF handler.does = "declines" THEN [mail EXCEPT !.i = @ + 1]
               ELSE [mail EXCEPT
                        !.sent = IF handler.does = "sends to all" THEN 1
                                 ELSE handler.recipients,
                        !.pc = "exited", !.status = Some(0)]
    /\ MailUnchanged

\* the loop is exhausted: nothing was raised, the except clause is passed
\* over and the script ends as any script does, with status 0
MailEnd ==
    /\ mail.pc = "loop" /\ mail.i > Len(mail.handlers)
    /\ mail' = [mail EXCEPT !.pc = "exited", !.status = Some(0)]
    /\ MailUnchanged

NextMail ==
    \/ MailStart
    \/ MailHandler
    \/ MailEnd

SpecMail == InitMail /\ [][NextMail]_vars

-----------------------------------------------------------------------------
(* Properties *)

Admitted(a) ==
    {k \in 1..Len(classapps) :
        classapps[k].app = a /\ classapps[k].admission_status = ADMITTED}

FetchFrames == {k \in 1..Len(stack) : stack[k].kind = "fetch"}

Idle == stack = << >> /\ AdmIdle

\* C1: in every state reached by reads, fetches, admit(), unadmit() and
\* waitlist() issued one after another, the states between the saves of
\* admit() included, at most one class application of any application is
\* Admitted, so the count asserted by admitted_to_class() is 1 whenever it is
\* not 0.
C1_AtMostOneAdmitted ==
    \A a \in 1..Len(apps) : Cardinality(Admitted(a)) <= 1

\* C1 witness: admit() has saved some siblings as Unassigned and has yet to
\* reach a sibling, not the one being admitted, that is still Admitted.
C1_AdmitMidwayPastAdmittedSibling ==
    \E s \in Staff :
        /\ adm[s].pc = "loop"
        /\ Len(adm[s].todo) < Len(AdmitSiblings(classapps, adm[s].self))
        /\ \E j \in 1..Len(adm[s].todo) :
              /\ adm[s].todo[j] # adm[s].self
              /\ classapps[adm[s].todo[j]].admission_status = ADMITTED

\* C2: a read made while a fetch is in progress starts no fetch: at most one
\* fetch body is on the call stack, no program's body is begun twice within
\* one triggering read, and a body that is running is that program's only one.
C2_NoNestedFetch ==
    /\ Cardinality(FetchFrames) <= 1
    /\ \A p \in Programs : runs[p] <= 1
    /\ \A k \in FetchFrames : runs[stack[k].program] = 1

\* C2 witness: get_query_set is running on behalf of the lookup inside a fetch.
C2_ReadInsideFetch ==
    /\ Len(stack) = 3
    /\ stack[2].kind = "fetch" /\ stack[2].pc = "save"
    /\ stack[3].kind = "gqs"

\* C3: the manager's flag is true exactly while a fetch body is executing; it
\* is false once fetch has been left, by return or by an exception raised at
\* any point of the body.
C3_LockedExactlyInFetch == locked <=> FetchFrames # {}

\* C3 witness: a fetch was left by an exception raised at a save of a class
\* application, after writes, and the flag is false.
C3_FailedInWritePhaseUnlocked ==
    /\ outcome = "error" /\ err.pc = "cls" /\ err.dirty
    /\ ~locked

\* C4: fetch is idempotent: when a fetch body has completed, running the body
\* again on the tables it left, with the same listing, users and catalog,
\* completes too and leaves the same tables, row for row.
C4_FetchIdempotent ==
    InFetch({"return"}) =>
        FetchAll(Tables(apps, classapps), Top.program, Top.subs, 1)
            = Tables(apps, classapps)

\* C4 witness: a fetch body has completed that created applications and
\* class applications.
C4_FetchCompletedWithRecords ==
    /\ InFetch({"return"})
    /\ Len(apps) > Len(pre.apps) /\ Len(classapps) > Len(pre.classapps)

\* C5: after a fetch that failed, the stored applications and class
\* applications are exactly those stored when that fetch started.
C5_FailedFetchRestores ==
    outcome = "error" => apps = pre.apps /\ classapps = pre.classapps

\* C5 witness: a fetch failed at its third submission with uncommitted writes
\* of earlier submissions outstanding.
C5_FailedAfterPartialBatch ==
    outcome = "error" /\ err.i = 3 /\ err.dirty

\* the submission in hand at the head of the loop has no matching local user
AtUserlessSubmission ==
    /\ InFetch({"loop"}) /\ Top.i <= Len(Top.subs)
    /\ ~DataRaises(Top.subs[Top.i].data)
    /\ LET username == DictGet(Top.subs[Top.i].data, username_field(Top.program))
       IN  username = None \/ username[1] \notin Users

\* C6: a submission whose username matches no local user, or that has no
\* username, changes no record and raises nothing: unless the API or the
\* database fails at that moment, fetch goes on to the next submission.
C6_MissingUserSkipped ==
    [][(AtUserlessSubmission /\ ~(outcome' = "error" /\ err'.kind = "external"))
          => /\ apps' = apps /\ classapps' = classapps
             /\ outcome' = outcome /\ err' = err
             /\ stack' = SetTop([Top EXCEPT !.i = @ + 1])]_vars

\* C6 witness: fetch stands at the third submission, having stored the first
\* one's application and passed the second, whose user "ghost" is unknown.
C6_PastGhost ==
    /\ InFetch({"loop"}) /\ Top.i = 3
    /\ Top.subs[2] = SubB
    /\ Len(Top.result) = 1 /\ Len(apps) = 1

\* The resolver as specified: None for None; the subject of the integer left
\* of the first '|' when there is one; in every other case the first subject
\* titled like that left part, trimmed; None without one.
ResolveReference(program, s) ==
    IF s = None THEN None
    ELSE LET left == Partition(s[1])
             n == ParseInt(left)
             byId == {k \in 1..Len(classes(program)) :
                         n # None /\ classes(program)[k].id = n[1]}
             byTitle == {k \in 1..Len(classes(program)) :
                            classes(program)[k].title = Strip(left)}
         IN  IF byId # {} THEN Some(classes(program)[SeqMin(byId)].id)
             ELSE IF byTitle # {} THEN Some(classes(program)[SeqMin(byTitle)].id)
             ELSE None

\* C7: for every token the resolver raises nothing and returns what the
\* reference gives.
C7_ResolverMatchesReference ==
    rout.done =>
        /\ ~rout.res.raised
        /\ rout.res.value = ResolveReference(rin.program, rin.token)

EndToEndListings == {EndToEnd(c) : c \in UnresolvableChoices}

\* what the three-submission scenario is to leave behind
EndToEndApps ==
    << [NewApp(1) EXCEPT !.user = Some(UAlice), !.program = Some("P1")],
       [NewApp(3) EXCEPT !.user = Some(UBob), !.program = Some("P1")] >>

EndToEndClassApps ==
    << [NewClassApp(1, 1) EXCEPT !.subject = Some(7)],
       [NewClassApp(1, 2) EXCEPT !.subject = Some(9)] >>

\* C8: from empty tables, a fetch over the submissions of alice ('7|Algebra',
\* 'Geometry'), the unknown ghost, and bob with no resolvable choice raises
\* nothing and leaves alice's and bob's applications and alice's two class
\* applications (rank 1 subject 7, rank 2 subject 9), nothing else.
C8_EndToEnd ==
    /\ (/\ InFetch({"return"}) /\ Top.program = "P1"
        /\ Top.subs \in EndToEndListings
        /\ pre.apps = << >> /\ pre.classapps = << >>)
          => apps = EndToEndApps /\ classapps = EndToEndClassApps
    /\ ~(/\ outcome = "error" /\ err.program = "P1" /\ err.kind # "external"
         /\ upstream["P1"] \in EndToEndListings
         /\ pre.apps = << >> /\ pre.classapps = << >>)

\* a read request has returned the query set
ReadReturned == stack = << >> /\ outcome = "ok"

\* C9 as claimed: every read made outside a fetch carries out the fetch body
\* of every configured program before it returns.
C9_EveryReadSynchronises ==
    ReadReturned => \A p \in Programs : runs[p] = 1

\* C9 as amended: a read made outside a fetch calls fetch for every configured
\* program; the body is carried out for exactly the programs without a
\* memoized result, and every program has one when the read returns.
C9_ReadSynchronisesUnlessMemoized ==
    ReadReturned =>
        \A p \in Programs :
            /\ runs[p] = (IF p \in memoAtRead THEN 0 ELSE 1)
            /\ memo[p].set

\* C9 witness: a read has returned that skipped the memoized P1 and carried
\* out P2's fetch body.
C9_ReadWithMemoizedProgram ==
    ReadReturned /\ runs["P1"] = 0 /\ runs["P2"] = 1

\* C10: no memoized fetch result outlives an invalidation of the upstream
\* data it was computed from: a program whose upstream data was invalidated
\* has no memoized result until its fetch body has run again, and a read
\* that returns leaves no such program behind.
C10_InvalidationDropsMemo ==
    /\ \A p \in stale : ~memo[p].set
    /\ ReadReturned => stale = {}

\* C10 witness: both programs had been fetched, P1's upstream data was then
\* invalidated, and the result memoized for P2 is gone with P1's.
C10_InvalidatedAfterFetches ==
    /\ Idle /\ stale = {"P1"} /\ Len(apps) = 3
    /\ ~memo["P1"].set /\ ~memo["P2"].set

\* C11: a fetch left by an exception ends the read that triggered it without
\* a result, leaves no memoized result for its program, and is carried out
\* again by the next read: no read returns while a failed program's fetch
\* body has not begun anew.
C11_FailedFetchSurfacesAndRetries ==
    /\ outcome = "error" => stack = << >> /\ err.program \in failed
    /\ \A p \in failed : ~memo[p].set
    /\ ReadReturned => failed = {}

\* C11 witness: a read has returned that carried out P2's fetch body again,
\* P1 having a memoized result and P2 none since P2's fetch failed in an
\* earlier read.
C11_RetriedAfterFailure ==
    /\ ReadReturned /\ runs["P2"] = 1 /\ memo["P2"].set
    /\ "P2" \notin memoAtRead /\ "P1" \in memoAtRead /\ stale = {}
    /\ form_id["P2"] # None

\* C12: no two applications share a submission id, no two class applications
\* share an (application, preference) pair, and no save made by fetch is
\* refused by either uniqueness constraint.
C12_KeysUnique ==
    /\ \A j, k \in 1..Len(apps) :
          apps[j].submission_id = apps[k].submission_id => j = k
    /\ \A j, k \in 1..Len(classapps) :
          (/\ classapps[j].app = classapps[k].app
           /\ classapps[j].student_preference = classapps[k].student_preference)
              => j = k
    /\ err.kind \notin {"integrity", "multiple"}

\* C12 witness: after admissions were made, a fetch over a changed listing
\* has gone through an application and class applications it had stored
\* before, and has added a class application to them.
C12_RefetchedChangedListing ==
    /\ InFetch({"return"}) /\ Top.subs = Edited
    /\ Len(pre.apps) >= 2 /\ Len(pre.classapps) = 2 /\ Len(classapps) = 3
    /\ \E k \in 1..Len(classapps) : classapps[k].admission_status # UNASSIGNED

\* C13: a program whose settings have no form id never gets past the first
\* statement of fetch; the fetch fails there, once, with no submission in
\* hand, the tables as they were, the flag false and the read ended.
C13_UnsetFormFailsAtOnce ==
    /\ \A k \in FetchFrames :
          form_id[stack[k].program] = None => stack[k].pc = "settings"
    /\ (outcome = "error" /\ err.kind = "config") =>
          /\ form_id[err.program] = None
          /\ err.pc = "settings" /\ err.i = 0 /\ ~err.dirty
          /\ apps = pre.apps /\ classapps = pre.classapps
          /\ runs[err.program] = 1
          /\ ~locked /\ stack = << >>

\* C13 witness: the fetch of P2, whose form id is unset, has failed while
\* applications and class applications of P1 are stored.
C13_UnsetFormFailed ==
    /\ outcome = "error" /\ err.kind = "config" /\ err.program = "P2"
    /\ Len(apps) >= 2 /\ Len(classapps) >= 2

\* C14: when admit() has completed on a class application, that one is
\* Admitted, every other class application of the same application is
\* Unassigned whatever it was before, and nothing else about any class
\* application has changed.
C14_AdmitPostcondition ==
    last.op = "admit" =>
        /\ Len(classapps) = Len(last.before)
        /\ \A k \in 1..Len(classapps) :
              classapps[k] =
                  IF k = last.self
                  THEN [last.before[k] EXCEPT !.admission_status = ADMITTED]
                  ELSE IF last.before[k].app = last.before[last.self].app
                  THEN [last.before[k] EXCEPT !.admission_status = UNASSIGNED]
                  ELSE last.before[k]

\* C14 witness: admit() has completed on a class application one of whose
\* siblings was Waitlisted and another Admitted before the call, while a
\* class application of another application is Waitlisted.
C14_AdmittedOverWaitlistedAndAdmitted ==
    /\ last.op = "admit"
    /\ \E j, k \in 1..Len(last.before) :
          /\ j # last.self /\ k # last.self
          /\ last.before[j].app = last.before[last.self].app
          /\ last.before[k].app = last.before[last.self].app
          /\ last.before[j].admission_status = WAITLIST
          /\ last.before[k].admission_status = ADMITTED
    /\ \E k \in 1..Len(classapps) :
          /\ classapps[k].app # classapps[last.self].app
          /\ classapps[k].admission_status = WAITLIST

\* C15: when admit() calls on class applications of one application overlap,
\* their saves interleaved in any order, at most one class application of
\* that application is Admitted once the calls have completed.
C15_OverlappingAdmitsLeaveOneAdmitted ==
    AdmIdle => \A a \in 1..Len(apps) : Cardinality(Admitted(a)) <= 1

\* the transitions of admission_status the life cycle permits
PermittedTransitions ==
    {<< UNASSIGNED, ADMITTED >>, << UNASSIGNED, WAITLIST >>,
     << ADMITTED, UNASSIGNED >>, << WAITLIST, UNASSIGNED >>}

\* C16: every step leaves the admission status of a class application as it
\* was or changes it along Unassigned -> Admitted, Unassigned -> Waitlisted,
\* Admitted -> Unassigned or Waitlisted -> Unassigned, never directly between
\* Admitted and Waitlisted; and every class application that a step creates
\* is Unassigned.
C16_OnlyPermittedTransitions ==
    [][\A k \in 1..Len(classapps') :
          IF k <= Len(classapps)
          THEN \/ classapps'[k].admission_status = classapps[k].admission_status
               \/ << classapps[k].admission_status,
                     classapps'[k].admission_status >> \in PermittedTransitions
          ELSE classapps'[k].admission_status = UNASSIGNED]_vars

\* C17: from the moment a fetch body begins, every application stored then
\* differs from what it was at most in user and program, and every class
\* application stored then at most in subject: admission status,
\* administrative status and comment, teacher rating, ranking and comment
\* are what they were.
C17_FetchKeepsStaffState ==
    /\ Len(pre.apps) <= Len(apps) /\ Len(pre.classapps) <= Len(classapps)
    /\ \A k \in 1..Len(pre.apps) :
          apps[k] = [pre.apps[k] EXCEPT !.user = apps[k].user,
                                        !.program = apps[k].program]
    /\ \A k \in 1..Len(pre.classapps) :
          classapps[k] = [pre.classapps[k] EXCEPT !.subject = classapps[k].subject]

\* C17 witness: a fetch body has completed that changed the user of an
\* approved, commented application and the subject of its class application,
\* which is Admitted, rated, ranked and commented.
C17_SyncedReviewedRecords ==
    /\ InFetch({"return"}) /\ Len(pre.apps) >= 1 /\ Len(pre.classapps) >= 1
    /\ apps[1].user # pre.apps[1].user
    /\ classapps[1].subject # pre.classapps[1].subject
    /\ apps[1].admin_status = APPROVED /\ apps[1].admin_comment # ""
    /\ classapps[1].admission_status = ADMITTED
    /\ classapps[1].teacher_rating # None /\ classapps[1].teacher_ranking # None
    /\ classapps[1].teacher_comment # ""

\* C18: a class choice that resolves to no subject (an absent field, a
\* numeric id not in the catalog, a title no subject has) fails no fetch,
\* and no fetch leaves fewer applications or class applications than it found.
C18_UnresolvableChoiceNotAnError ==
    /\ ~(outcome = "error" /\ err.kind = "subject")
    /\ Len(pre.apps) <= Len(apps) /\ Len(pre.classapps) <= Len(classapps)

\* the records of the tables without their primary keys: a class application
\* names its application by the submission id
Records(db) ==
    [apps |-> {db.apps[k] : k \in 1..Len(db.apps)},
     classapps |-> {[db.classapps[k] EXCEPT
                        !.app = db.apps[db.classapps[k].app].submission_id] :
                    k \in 1..Len(db.classapps)}]

\* C19: for a listing of submissions with pairwise distinct ids, when the
\* fetch over the listing succeeds, the fetch over any permutation of it
\* succeeds and stores the same records (primary keys apart).
C19_UpsertsCommute ==
    (pout.done /\ pout.listed.ok) =>
        /\ pout.permuted.ok
        /\ Records(pout.permuted) = Records(pout.listed)

\* C19 witness: three submissions, two of them alice's, were processed in two
\* different orders, both fetches succeeded, and the rows were stored under
\* different primary keys.
C19_ReorderedThree ==
    /\ pout.done /\ pout.listed.ok
    /\ Len(pin.subs) = 3 /\ pin.perm = << 3, 1, 2 >>
    /\ {SubA, SubD} \subseteq {pin.subs[k] : k \in 1..3}
    /\ pout.listed.apps # pout.permuted.apps
    /\ pout.listed.classapps # pout.permuted.classapps

\* no handler's pattern is found in the local part
NoHandlerMatches ==
    /\ mail.local # None
    /\ \A k \in 1..Len(mail.handlers) :
          ~Search(mail.handlers[k].regex, mail.local[1], re_I)

\* C20: a run for a local part that no handler's pattern matches ends with
\* the 'Could not find user' notice and a failure status, nothing sent; and
\* a run ends with status 0 only when a handler has sent the message.
C20_NoMatchIsUnknownUser ==
    mail.pc = "exited" =>
        /\ NoHandlerMatches =>
              mail.notice /\ mail.status = Some(1) /\ mail.sent = 0
        /\ mail.status = Some(0) => mail.sent > 0

====
